---- MODULE Spec2Model ----
(***************************************************************************)
(* A model of prvhash42 (src/prvhash42.h, version 2.20).                   *)
(*                                                                         *)
(* Memory is modelled as bytes.  A 32-bit value is a sequence of 4 bytes   *)
(* and a 64-bit value a sequence of 8 bytes, least significant byte first, *)
(* so that uint64_t arithmetic keeps its full width (mod 2^64) although    *)
(* the model checker's integers are narrower.                              *)
(*                                                                         *)
(* The same call is executed side by side by three "runs": on a            *)
(* little-endian host ("le"), on a big-endian host ("be"), and on a        *)
(* little-endian host with another SeedXOR argument ("sx").  The control   *)
(* flow of prvhash42 depends only on MsgLen and HashLen, so the runs go    *)
(* through the function in lockstep.                                       *)
(***************************************************************************)
EXTENDS Integers, Sequences, FiniteSets

(***************************************************************************)
(* Bounds of the model.                                                    *)
(***************************************************************************)
\* messages have 0..MaxMsgLen bytes
MaxMsgLen == 12
\* the message of a continuation call has 0..MaxContLen bytes
MaxContLen == 0
\* HashLen is 4, 8, .., 4 * MaxHashWords
MaxHashWords == 2

(***************************************************************************)
(* Fixed-width unsigned arithmetic on little-endian byte sequences.        *)
(***************************************************************************)
\* a ^ b on 4-bit values
XorNibble ==
    [a \in 0..15 |-> [b \in 0..15 |->
        ((a + b) % 2)
        + 2 * (((a \div 2) + (b \div 2)) % 2)
        + 4 * (((a \div 4) + (b \div 4)) % 2)
        + 8 * (((a \div 8) + (b \div 8)) % 2)]]

\* a ^ b on bytes
XorByte(a, b) ==
    16 * XorNibble[a \div 16][b \div 16] + XorNibble[a % 16][b % 16]

\* a ^ b, uint32_t
Xor32(a, b) ==
    <<XorByte(a[1], b[1]), XorByte(a[2], b[2]),
      XorByte(a[3], b[3]), XorByte(a[4], b[4])>>

\* a ^ b, uint64_t
Xor64(a, b) ==
    <<XorByte(a[1], b[1]), XorByte(a[2], b[2]),
      XorByte(a[3], b[3]), XorByte(a[4], b[4]),
      XorByte(a[5], b[5]), XorByte(a[6], b[6]),
      XorByte(a[7], b[7]), XorByte(a[8], b[8])>>

\* ~a, uint64_t
Not64(a) ==
    <<255 - a[1], 255 - a[2], 255 - a[3], 255 - a[4],
      255 - a[5], 255 - a[6], 255 - a[7], 255 - a[8]>>

\* F of the value of v, v computed once
With(v, F(_)) == CHOOSE y \in {F(x) : x \in {v}} : TRUE

\* a + b, uint64_t (wraps mod 2^64): byte i is s_i % 256, and s_i carries
\* s_(i-1) \div 256
Add64(a, b) ==
    With(a[1] + b[1], LAMBDA s1 :
    With((s1 \div 256) + a[2] + b[2], LAMBDA s2 :
    With((s2 \div 256) + a[3] + b[3], LAMBDA s3 :
    With((s3 \div 256) + a[4] + b[4], LAMBDA s4 :
    With((s4 \div 256) + a[5] + b[5], LAMBDA s5 :
    With((s5 \div 256) + a[6] + b[6], LAMBDA s6 :
    With((s6 \div 256) + a[7] + b[7], LAMBDA s7 :
    With((s7 \div 256) + a[8] + b[8], LAMBDA s8 :
        <<s1 % 256, s2 % 256, s3 % 256, s4 % 256,
          s5 % 256, s6 % 256, s7 % 256, s8 % 256>>))))))))

\* a * b, uint64_t (wraps mod 2^64): the schoolbook product of the bytes;
\* column i sums a[t] * b[i + 1 - t] and the carry of column i - 1
Mul64(a, b) ==
    With(a[1] * b[1], LAMBDA s1 :
    With((s1 \div 256) + a[1] * b[2] + a[2] * b[1], LAMBDA s2 :
    With((s2 \div 256) + a[1] * b[3] + a[2] * b[2] + a[3] * b[1], LAMBDA s3 :
    With((s3 \div 256) + a[1] * b[4]
           + a[2] * b[3] + a[3] * b[2] + a[4] * b[1], LAMBDA s4 :
    With((s4 \div 256) + a[1] * b[5] + a[2] * b[4]
           + a[3] * b[3] + a[4] * b[2] + a[5] * b[1], LAMBDA s5 :
    With((s5 \div 256) + a[1] * b[6] + a[2] * b[5]
           + a[3] * b[4] + a[4] * b[3] + a[5] * b[2] + a[6] * b[1], LAMBDA s6 :
    With((s6 \div 256) + a[1] * b[7] + a[2] * b[6] + a[3] * b[5]
           + a[4] * b[4] + a[5] * b[3] + a[6] * b[2] + a[7] * b[1], LAMBDA s7 :
    With((s7 \div 256) + a[1] * b[8] + a[2] * b[7] + a[3] * b[6]
           + a[4] * b[5] + a[5] * b[4] + a[6] * b[3] + a[7] * b[2] + a[8] * b[1], LAMBDA s8 :
        <<s1 % 256, s2 % 256, s3 % 256, s4 % 256,
          s5 % 256, s6 % 256, s7 % 256, s8 % 256>>))))))))

\* a >> 32, uint64_t
Shr32(a) == <<a[5], a[6], a[7], a[8], 0, 0, 0, 0>>

\* (uint32_t) a
Low32(a) == <<a[1], a[2], a[3], a[4]>>

\* a uint32_t widened to uint64_t
Zext64(w) == <<w[1], w[2], w[3], w[4], 0, 0, 0, 0>>

(***************************************************************************)
(* The external endianness helpers (prvhash42ec.h) on a host that is       *)
(* little-endian ("LE") or big-endian ("BE").                              *)
(***************************************************************************)
Hosts == {"LE", "BE"}

\* the 32-bit value a host loads from the 4 bytes at mem[pos .. pos+3]
\* (pos counts from 0) with a native uint32_t access
LoadNative32(mem, pos, host) ==
    IF host = "LE"
    THEN <<mem[pos + 1], mem[pos + 2], mem[pos + 3], mem[pos + 4]>>
    ELSE <<mem[pos + 4], mem[pos + 3], mem[pos + 2], mem[pos + 1]>>

\* mem after a native uint32_t store of w at mem[pos .. pos+3]
StoreNative32(mem, pos, host, w) ==
    [i \in 1..Len(mem) |->
        IF i <= pos \/ i > pos + 4 THEN mem[i]
        ELSE IF host = "LE" THEN w[i - pos] ELSE w[5 - (i - pos)]]

\* the byte swap of a 32-bit value
ByteSwap32(w) == <<w[4], w[3], w[2], w[1]>>

\* prvhash42_ec( buf, len ): corrects every 32-bit word of buf[0 .. len-1] in
\* place: nothing on a little-endian host, a byte swap on a big-endian one
prvhash42_ec(buf, len, host) ==
    IF host = "LE" THEN buf
    ELSE [i \in 1..Len(buf) |->
            IF i > len THEN buf[i]
            ELSE buf[4 * ((i - 1) \div 4) + 4 - ((i - 1) % 4)]]

\* prvhash42_u32ec( p ): the 32-bit value at p in canonical order
prvhash42_u32ec(mem, pos, host) ==
    IF host = "LE" THEN LoadNative32(mem, pos, host)
    ELSE ByteSwap32(LoadNative32(mem, pos, host))

\* prvhash42_u64ec( p ): the 64-bit value at p in canonical order
prvhash42_u64ec(mem, pos, host) ==
    IF host = "LE"
    THEN [i \in 1..8 |-> mem[pos + i]]
    ELSE LET native == [i \in 1..8 |-> mem[pos + 9 - i]]
         IN  [i \in 1..8 |-> native[9 - i]]

(***************************************************************************)
(* prvhash42: the values computed from the arguments.                      *)
(***************************************************************************)
\* line 89: 15252113002925621231ULL = 0xD3AA63F78D7F7FEF
DefaultLcg == <<239, 127, 127, 141, 247, 99, 170, 211>>
\* line 90: 17412655673657598932ULL = 0xF1A62E14388D23D4
DefaultSeed == <<212, 35, 141, 56, 20, 46, 166, 241>>

\* line 81
Hlm(hashLen) == IF hashLen = 4 THEN hashLen ELSE hashLen * 2


\* a slip: the filler byte is the last byte itself, not its complement
Lb_NoComplement(msg) == IF Len(msg) > 0 THEN msg[Len(msg)] ELSE 255

\* line 100; ~ on a byte
Lb(msg) == IF Len(msg) > 0 THEN 255 - msg[Len(msg)] ELSE 255


\* a slip: the "& 3" that keeps an aligned length unchanged is missing
Mlext_NoMask(msgLen) == msgLen + (4 - (msgLen % 4))

\* line 101; MsgLen & 3 is MsgLen % 4 for MsgLen >= 0
Mlext(msgLen) == msgLen + ((4 - (msgLen % 4)) % 4)


\* a slip: the term that aligns the end of the loop to the buffer is missing
LoopEnd_NoAlign(msgLen, hashLen) == Mlext(msgLen) + hashLen

\* line 102
LoopEnd(msgLen, hashLen) ==
    Mlext(msgLen) + hashLen + (Hlm(hashLen) - (Mlext(msgLen) % Hlm(hashLen)))

\* lines 110-120: the indices of Msg (from 0) that loop step k reads
MsgReads(msgLen, k) ==
    IF k < msgLen - 3 THEN {k, k + 1, k + 2, k + 3}
    ELSE (IF k < msgLen THEN {k} ELSE {})
         \cup (IF k < msgLen - 1 THEN {k + 1} ELSE {})
         \cup (IF k < msgLen - 2 THEN {k + 2} ELSE {})


\* a slip: a full word is loaded in host order, without prvhash42_u32ec
MsgWord_NativeRead(msg, k, host) ==
    LET msgLen == Len(msg)
        lb == Lb(msg)
    IN  IF k < msgLen - 3 THEN LoadNative32(msg, k, host)
        ELSE << IF k < msgLen THEN msg[k + 1] ELSE lb,
                IF k < msgLen - 1 THEN msg[k + 2] ELSE lb,
                IF k < msgLen - 2 THEN msg[k + 3] ELSE lb,
                lb >>

\* a slip: the top byte of a synthesized word is left 0
MsgWord_NoTopFiller(msg, k, host) ==
    LET msgLen == Len(msg)
        lb == Lb(msg)
    IN  IF k < msgLen - 3 THEN prvhash42_u32ec(msg, k, host)
        ELSE << IF k < msgLen THEN msg[k + 1] ELSE lb,
                IF k < msgLen - 1 THEN msg[k + 2] ELSE lb,
                IF k < msgLen - 2 THEN msg[k + 3] ELSE lb,
                0 >>

\* lines 108-120: the message word of loop step k
MsgWord(msg, k, host) ==
    LET msgLen == Len(msg)
        lb == Lb(msg)
    IN  IF k < msgLen - 3 THEN prvhash42_u32ec(msg, k, host)
        ELSE << IF k < msgLen THEN msg[k + 1] ELSE lb,
                IF k < msgLen - 1 THEN msg[k + 2] ELSE lb,
                IF k < msgLen - 2 THEN msg[k + 3] ELSE lb,
                lb >>

\* lines 122-129: one mixing step on s = [lcg, Seed, Hash] at hpos
Mix(s, hpos, msgw, host) ==
    With(Mul64(s.Seed, s.lcg), LAMBDA Seed0 :
    With(Not64(Seed0), LAMBDA Seed1 :
    With(Xor64(Shr32(s.lcg), Zext64(msgw)), LAMBDA hl :
    With(Add64(s.lcg, Seed1), LAMBDA lcg1 :
    With(Xor64(Zext64(LoadNative32(s.Hash, hpos, host)), Shr32(Seed1)), LAMBDA ph :
    With(Xor64(Seed1, Xor64(ph, hl)), LAMBDA Seed2 :
        [lcg |-> lcg1, Seed |-> Seed2,
         Hash |-> StoreNative32(s.Hash, hpos, host, Low32(ph))]))))))


\* a slip: the cursor wraps at HashLen, not at hlm
NextHpos_WrapAtHashLen(h, hashLen) == IF h + 4 = hashLen THEN 0 ELSE h + 4

\* lines 131-136: the cursor after a step
NextHpos(h, hashLen) == IF h + 4 = Hlm(hashLen) THEN 0 ELSE h + 4


\* a slip: "=" for "^="
Fold_Assign(hash, k, hashLen, host) ==
    StoreNative32(hash, k, host, LoadNative32(hash, hashLen + k, host))

\* line 143: the fold of the word at HashLen + k into the word at k
Fold(hash, k, hashLen, host) ==
    StoreNative32(hash, k, host,
        Xor32(LoadNative32(hash, k, host), LoadNative32(hash, hashLen + k, host)))

(***************************************************************************)
(* The arguments the model calls prvhash42 with.                           *)
(***************************************************************************)
\* the runs and the host each executes on
Runs == {"le", "be", "sx"}
HostOf(r) == IF r = "be" THEN "BE" ELSE "LE"

\* InitVec == 0
NoVec == <<>>

HashLens == {4 * n : n \in 1..MaxHashWords}

MsgPatterns == {"zero", "ones", "alt", "text"}

\* byte i (from 1) of the messages of pattern p; "alt" alternates a byte with
\* its complement, so each such message is the previous one extended by lb
PatByte(p, i) ==
    CASE p = "zero" -> 0
      [] p = "ones" -> 255
      [] p = "alt" -> IF i % 2 = 1 THEN 97 ELSE 158
      [] p = "text" -> 96 + i

Messages(maxLen) ==
    {[i \in 1..n |-> PatByte(p, i)] : p \in MsgPatterns, n \in 0..maxLen}

InitVecs == {[i \in 1..16 |-> (i * 29 + 7) % 256]}

SeedXORs == {<<0, 0, 0, 0, 0, 0, 0, 0>>, <<1, 2, 3, 4, 5, 6, 7, 8>>}

\* what the caller's buffer may hold before the first call
PriorBufs(len) == {[i \in 1..len |-> 0], [i \in 1..len |-> (i * 37) % 256]}

(***************************************************************************)
(* The state.                                                              *)
(***************************************************************************)
VARIABLES
    Msg,        \* the message, a sequence of bytes (MsgLen is its length)
    HashLen,
    SeedXOR,    \* of each run
    InitVec,    \* NoVec or 16 bytes
    st,         \* of each run: [lcg, Seed, Hash], Hash the hlm bytes of the buffer
    hpos,
    k,
    pc,         \* "INIT", "PROCESS", "FOLD", "NORMALIZE_OUTPUT", "DONE"
    call,       \* "first", or "second": a call that continues the first
    entry,      \* history: each run's buffer when the call was entered
    atExit,     \* history: each run's buffer when the loop was left
    fed,        \* history: each run's message words, in loop order
    reads,      \* history: the indices of Msg the call has read
    iters,      \* history: the iterations of the loop so far
    post        \* history: the buffer offsets written by iterations with k >= mlext

vars == <<Msg, HashLen, SeedXOR, InitVec, st, hpos, k, pc, call,
          entry, atExit, fed, reads, iters, post>>

MsgLen == Len(Msg)
hlm == Hlm(HashLen)
lb == Lb(Msg)
mlext == Mlext(MsgLen)
c == LoopEnd(MsgLen, HashLen)

Unset64 == <<0, 0, 0, 0, 0, 0, 0, 0>>

Init ==
    /\ pc = "INIT"
    /\ call = "first"
    /\ Msg \in Messages(MaxMsgLen)
    /\ HashLen \in HashLens
    /\ InitVec \in {NoVec} \cup InitVecs
    /\ \E x \in SeedXORs :
         SeedXOR = [r \in Runs |->
                      IF r = "sx" THEN CHOOSE y \in SeedXORs : y # x ELSE x]
    /\ \E b \in PriorBufs(Hlm(HashLen)) :
         /\ st = [r \in Runs |-> [lcg |-> Unset64, Seed |-> Unset64, Hash |-> b]]
         /\ entry = [r \in Runs |-> b]
         /\ atExit = [r \in Runs |-> b]
    /\ hpos = 0
    /\ k = 0
    /\ fed = [r \in Runs |-> <<>>]
    /\ reads = {}
    /\ iters = 0
    /\ post = {}


\* a slip: SeedXOR is applied to the Seed of an InitVec too
Entered_SeedXorAlways(s, seedXor, host) ==
    IF InitVec = NoVec
    THEN [lcg |-> DefaultLcg,
          Seed |-> Xor64(DefaultSeed, seedXor),
          Hash |-> [i \in 1..Len(s.Hash) |-> IF i <= hlm THEN 0 ELSE s.Hash[i]]]
    ELSE [lcg |-> prvhash42_u64ec(InitVec, 0, host),
          Seed |-> Xor64(prvhash42_u64ec(InitVec, 8, host), seedXor),
          Hash |-> prvhash42_ec(s.Hash, hlm, host)]

\* lines 85-98: the state of run r entering the loop
Entered(s, seedXor, host) ==
    IF InitVec = NoVec
    THEN [lcg |-> DefaultLcg,
          Seed |-> Xor64(DefaultSeed, seedXor),
          Hash |-> [i \in 1..Len(s.Hash) |-> IF i <= hlm THEN 0 ELSE s.Hash[i]]]
    ELSE [lcg |-> prvhash42_u64ec(InitVec, 0, host),
          Seed |-> prvhash42_u64ec(InitVec, 8, host),
          Hash |-> prvhash42_ec(s.Hash, hlm, host)]

\* lines 81-104
Initialize ==
    /\ pc = "INIT"
    /\ st' = [r \in Runs |-> Entered(st[r], SeedXOR[r], HostOf(r))]
    /\ reads' = IF MsgLen > 0 THEN {MsgLen - 1} ELSE {}
    /\ hpos' = 0
    /\ k' = 0
    /\ pc' = "PROCESS"
    /\ UNCHANGED <<Msg, HashLen, SeedXOR, InitVec, call, entry, atExit, fed,
                   iters, post>>

\* lines 106-137: one iteration of the loop
LoopStep ==
    /\ pc = "PROCESS"
    /\ k < c
    /\ st' = [r \in Runs |->
                Mix(st[r], hpos, MsgWord(Msg, k, HostOf(r)), HostOf(r))]
    /\ fed' = [r \in Runs |-> Append(fed[r], MsgWord(Msg, k, HostOf(r)))]
    /\ reads' = reads \cup MsgReads(MsgLen, k)
    /\ post' = IF k >= mlext THEN post \cup {hpos} ELSE post
    /\ iters' = iters + 1
    /\ hpos' = NextHpos(hpos, HashLen)
    /\ k' = k + 4
    /\ UNCHANGED <<Msg, HashLen, SeedXOR, InitVec, pc, call, entry, atExit>>

\* line 106, k < c false; lines 139-141
LoopExit ==
    /\ pc = "PROCESS"
    /\ ~(k < c)
    /\ atExit' = [r \in Runs |-> st[r].Hash]
    /\ k' = IF hlm > 4 THEN 0 ELSE k
    /\ pc' = "FOLD"
    /\ UNCHANGED <<Msg, HashLen, SeedXOR, InitVec, st, hpos, call, entry, fed,
                   reads, iters, post>>


\* a slip: the fold does not advance k
FoldStep_NoAdvance ==
    /\ pc = "FOLD"
    /\ hlm > 4
    /\ k < HashLen
    /\ st' = [r \in Runs |->
                [st[r] EXCEPT !.Hash = Fold(@, k, HashLen, HostOf(r))]]
    /\ k' = k
    /\ UNCHANGED <<Msg, HashLen, SeedXOR, InitVec, hpos, pc, call, entry,
                   atExit, fed, reads, iters, post>>

\* lines 141-144: one iteration of the fold
FoldStep ==
    /\ pc = "FOLD"
    /\ hlm > 4
    /\ k < HashLen
    /\ st' = [r \in Runs |->
                [st[r] EXCEPT !.Hash = Fold(@, k, HashLen, HostOf(r))]]
    /\ k' = k + 4
    /\ UNCHANGED <<Msg, HashLen, SeedXOR, InitVec, hpos, pc, call, entry,
                   atExit, fed, reads, iters, post>>

\* line 139 false, or line 141 k < HashLen false
FoldExit ==
    /\ pc = "FOLD"
    /\ ~(hlm > 4 /\ k < HashLen)
    /\ pc' = "NORMALIZE_OUTPUT"
    /\ UNCHANGED <<Msg, HashLen, SeedXOR, InitVec, st, hpos, k, call, entry,
                   atExit, fed, reads, iters, post>>

\* line 147
Normalize ==
    /\ pc = "NORMALIZE_OUTPUT"
    /\ st' = [r \in Runs |->
                [st[r] EXCEPT !.Hash = prvhash42_ec(@, HashLen, HostOf(r))]]
    /\ pc' = "DONE"
    /\ UNCHANGED <<Msg, HashLen, SeedXOR, InitVec, hpos, k, call, entry,
                   atExit, fed, reads, iters, post>>

\* the caller continues: a second call with an InitVec, on the buffer as the
\* first call left it
Continue ==
    /\ pc = "DONE"
    /\ call = "first"
    /\ call' = "second"
    /\ Msg' \in Messages(MaxContLen)
    /\ InitVec' \in InitVecs
    /\ entry' = [r \in Runs |-> st[r].Hash]
    /\ fed' = [r \in Runs |-> <<>>]
    /\ reads' = {}
    /\ iters' = 0
    /\ post' = {}
    /\ pc' = "INIT"
    /\ UNCHANGED <<HashLen, SeedXOR, st, hpos, k, atExit>>

Next ==
    \/ Initialize
    \/ LoopStep
    \/ LoopExit
    \/ FoldStep
    \/ FoldExit
    \/ Normalize
    \/ Continue

Spec == Init /\ [][Next]_vars

\* prvhash42 is sequential code: a step that can be taken is taken
FairSpec == Spec /\ WF_vars(Next)

(***************************************************************************)
(* What the claims are stated with.                                        *)
(***************************************************************************)
\* the offsets of the 32-bit slots of a buffer of len bytes
Slots(len) == {4 * i : i \in 0..((len \div 4) - 1)}

\* MsgLen rounded up to a multiple of 4
RoundUp4(n) == 4 * ((n + 3) \div 4)

\* the loop is over
LoopLeft == pc \in {"FOLD", "NORMALIZE_OUTPUT", "DONE"}

\* the digest: the first HashLen bytes of run r's buffer
Digest(r) == SubSeq(st[r].Hash, 1, HashLen)

\* the bytes at mem[pos .. pos+3] as a value in canonical (little-endian) order
Canonical32(mem, pos) == <<mem[pos + 1], mem[pos + 2], mem[pos + 3], mem[pos + 4]>>

\* lines 106-120: the message words the loop feeds for message m
PadWords(m, hashLen, host) ==
    [i \in 1..(LoopEnd(Len(m), hashLen) \div 4) |-> MsgWord(m, 4 * (i - 1), host)]

(***************************************************************************)
(* C1.                                                                     *)
(***************************************************************************)
\* C1 as claimed: when the loop is left it has run at least hlm bytes beyond the
\* padded message, and every slot of [0, hlm) was written by an iteration with
\* k >= mlext.
C1_FullCycleAfterMessage ==
    LoopLeft =>
        /\ 4 * iters - RoundUp4(MsgLen) >= hlm
        /\ post = Slots(hlm)

\* C1 as amended: when the loop is left it has run at least HashLen + 4 bytes
\* beyond the padded message, and the slots written by iterations with
\* k >= mlext are exactly those of [0, HashLen) and of [mlext mod hlm, hlm);
\* they are all of [0, hlm) exactly when mlext mod hlm <= HashLen.
C1_PostMessageCoverage ==
    LoopLeft =>
        /\ 4 * iters - RoundUp4(MsgLen) >= HashLen + 4
        /\ post = {p \in Slots(hlm) :
                     p < HashLen \/ p >= RoundUp4(MsgLen) % hlm}
        /\ (post = Slots(hlm)) <=> (RoundUp4(MsgLen) % hlm <= HashLen)

\* a call whose loop leaves a scratch slot unwritten after the message
C1_Witness ==
    /\ pc = "FOLD"
    /\ HashLen = 8
    /\ MsgLen = 12
    /\ post = {0, 4, 12}

(***************************************************************************)
(* C2.                                                                     *)
(***************************************************************************)
\* C2: a call entered with the same buffer bytes on the little-endian and on
\* the big-endian host (and the same Msg, HashLen, SeedXOR, InitVec) leaves the
\* same first HashLen bytes in Hash.
C2_EndiannessIndependent ==
    (pc = "DONE" /\ entry["le"] = entry["be"]) => Digest("le") = Digest("be")

\* a call with an InitVec and full message words, whose scratch halves differ
\* between the hosts while the digests agree
C2_Witness ==
    /\ pc = "DONE"
    /\ call = "first"
    /\ InitVec # NoVec
    /\ HashLen > 4
    /\ MsgLen >= 5
    /\ entry["le"] = entry["be"]
    /\ st["le"].Hash # st["be"].Hash
    /\ Digest("le") = Digest("be")

(***************************************************************************)
(* C3.                                                                     *)
(***************************************************************************)
\* C3: entering the loop with an InitVec, lcg and Seed are the canonical
\* values of InitVec[0..8) and InitVec[8..16) and the buffer holds the words
\* of its prior contents; a call that differs only in SeedXOR has the same
\* buffer throughout.  Entering the loop without an InitVec, all hlm bytes are
\* 0, lcg is the default and Seed is the default XOR SeedXOR.
C3_InitVecState ==
    /\ (pc = "PROCESS" /\ iters = 0) =>
          \A r \in Runs :
             IF InitVec = NoVec
             THEN /\ st[r].Hash = [i \in 1..hlm |-> 0]
                  /\ st[r].lcg = DefaultLcg
                  /\ st[r].Seed = Xor64(DefaultSeed, SeedXOR[r])
             ELSE /\ st[r].lcg = SubSeq(InitVec, 1, 8)
                  /\ st[r].Seed = SubSeq(InitVec, 9, 16)
                  /\ \A p \in Slots(hlm) :
                        LoadNative32(st[r].Hash, p, HostOf(r))
                            = Canonical32(entry[r], p)
    /\ (InitVec # NoVec /\ entry["sx"] = entry["le"]) =>
          st["sx"].Hash = st["le"].Hash

\* two finished calls with an InitVec that differ in SeedXOR alone
C3_Witness ==
    /\ pc = "DONE"
    /\ call = "first"
    /\ InitVec # NoVec
    /\ SeedXOR["sx"] # SeedXOR["le"]
    /\ entry["sx"] = entry["le"]
    /\ st["le"].Hash # entry["le"]
    /\ st["sx"].Hash = st["le"].Hash

(***************************************************************************)
(* C4.                                                                     *)
(***************************************************************************)
\* C4: in the loop hpos is a multiple of 4 in [0, hlm) and equals k mod hlm,
\* with hlm = HashLen for HashLen = 4 and 2 * HashLen otherwise; the 4-byte
\* accesses of the loop (at hpos) and of the fold (at k and HashLen + k) lie
\* inside the hlm bytes of the buffer.
C4_CursorInBuffer ==
    /\ hlm = (IF HashLen = 4 THEN 4 ELSE 2 * HashLen)
    /\ \A r \in Runs : Len(st[r].Hash) = hlm
    /\ pc = "PROCESS" =>
          /\ hpos % 4 = 0
          /\ 0 <= hpos /\ hpos + 4 <= hlm
          /\ hpos = k % hlm
    /\ (pc = "FOLD" /\ hlm > 4 /\ k < HashLen) =>
          /\ 0 <= k /\ k + 4 <= hlm
          /\ HashLen + k + 4 <= hlm

\* the cursor after it has wrapped to 0 in a doubled buffer
C4_Witness ==
    /\ pc = "PROCESS"
    /\ HashLen > 4
    /\ k = hlm
    /\ hpos = 0
    /\ k < c

(***************************************************************************)
(* C5.                                                                     *)
(***************************************************************************)
\* the phases in the order of the call; DONE is left only for another call
PhaseOrder ==
    {<<"INIT", "PROCESS">>, <<"PROCESS", "FOLD">>,
     <<"FOLD", "NORMALIZE_OUTPUT">>, <<"NORMALIZE_OUTPUT", "DONE">>,
     <<"DONE", "INIT">>}

\* C5: every call, also one with MsgLen = 0, goes from INIT through PROCESS,
\* FOLD and NORMALIZE_OUTPUT to DONE, in this order and never back, the loop
\* of PROCESS having run exactly (mlext + HashLen + (hlm - mlext mod hlm)) / 4
\* times, and it reaches DONE.
C5_Terminates ==
    /\ [][(pc' # pc => <<pc, pc'>> \in PhaseOrder)
            /\ (pc = "DONE" /\ pc' = "INIT" => call' # call)]_vars
    /\ [](LoopLeft =>
            4 * iters = RoundUp4(MsgLen) + HashLen
                          + (hlm - (RoundUp4(MsgLen) % hlm)))
    /\ (pc = "INIT" ~> pc = "DONE")

\* a finished call with the empty message
C5_Witness ==
    /\ pc = "DONE"
    /\ MsgLen = 0
    /\ HashLen > 4
    /\ 4 * iters = HashLen + hlm

(***************************************************************************)
(* C6.                                                                     *)
(***************************************************************************)
\* C6 as claimed: the loop runs at most hlm bytes (hlm / 4 iterations) beyond
\* the padded message.
C6_AtMostOneBufferWidth ==
    LoopLeft => 4 * iters - RoundUp4(MsgLen) <= hlm

\* C6 as amended: the loop runs at most hlm + HashLen bytes ((hlm + HashLen) / 4
\* iterations) beyond the padded message.
C6_AtMostBufferPlusHashLen ==
    LoopLeft => 4 * iters - RoundUp4(MsgLen) <= hlm + HashLen

\* a call that attains the amended bound
C6_Witness ==
    /\ pc = "FOLD"
    /\ MsgLen > 0
    /\ 4 * iters - RoundUp4(MsgLen) = hlm + HashLen

(***************************************************************************)
(* C7.                                                                     *)
(***************************************************************************)
\* C7: the message word of the step at k has, as byte j of its little-endian
\* form, Msg[k + j] if k + j < MsgLen and else the complement of the last
\* message byte (0xFF for the empty message), on either branch and on either
\* host; and the call reads Msg only inside [0, MsgLen).
C7_MsgWordRule ==
    /\ \A r \in Runs : \A i \in 1..Len(fed[r]) :
          fed[r][i] = [j \in 1..4 |->
                         IF 4 * (i - 1) + j <= MsgLen
                         THEN Msg[4 * (i - 1) + j]
                         ELSE IF MsgLen = 0 THEN 255 ELSE 255 - Msg[MsgLen]]
    /\ reads \subseteq 0..(MsgLen - 1)

\* a big-endian run that took the direct read, then a partly filled word
C7_Witness ==
    /\ pc = "FOLD"
    /\ MsgLen = 6
    /\ Len(fed["be"]) > 2
    /\ fed["be"][1] = <<97, 98, 99, 100>>
    /\ fed["be"][2] = <<101, 102, 153, 153>>
    /\ reads = 0..5

(***************************************************************************)
(* C8.                                                                     *)
(***************************************************************************)
\* C8: after the call the scratch half [HashLen, hlm) is as the loop left it,
\* and the first HashLen bytes hold, in canonical order, the words the loop
\* left at k (HashLen = 4) or those words XOR the words it left at HashLen + k
\* (HashLen > 4).
C8_Finalizer ==
    pc = "DONE" =>
        \A r \in Runs :
            /\ \A i \in (HashLen + 1)..hlm : st[r].Hash[i] = atExit[r][i]
            /\ \A p \in Slots(HashLen) :
                  Canonical32(st[r].Hash, p) =
                      IF HashLen > 4
                      THEN Xor32(LoadNative32(atExit[r], p, HostOf(r)),
                                 LoadNative32(atExit[r], HashLen + p, HostOf(r)))
                      ELSE LoadNative32(atExit[r], p, HostOf(r))

\* a finished big-endian call whose fold and correction changed the output half
C8_Witness ==
    /\ pc = "DONE"
    /\ HashLen > 4
    /\ MsgLen > 0
    /\ Digest("be") # SubSeq(atExit["be"], 1, HashLen)
    /\ SubSeq(st["be"].Hash, HashLen + 1, hlm) = SubSeq(atExit["be"], HashLen + 1, hlm)
    /\ \E i \in (HashLen + 1)..hlm : atExit["be"][i] # 0

(***************************************************************************)
(* C9.                                                                     *)
(***************************************************************************)
\* C9: the message words the loop was fed differ, in number or in some word,
\* from the message words of every other message with the same HashLen.
C9_PaddingInjective ==
    pc = "FOLD" =>
        \A r \in Runs : \A m \in Messages(MaxMsgLen) :
            m # Msg => PadWords(m, HashLen, HostOf(r)) # fed[r]

\* a message whose extension by its own filler byte is another message, with
\* as many message words
C9_Witness ==
    /\ pc = "FOLD"
    /\ MsgLen > 0
    /\ MsgLen % 4 # 0
    /\ Append(Msg, lb) \in Messages(MaxMsgLen)
    /\ Len(PadWords(Append(Msg, lb), HashLen, "LE")) = Len(fed["le"])

(***************************************************************************)
(* C10.                                                                    *)
(***************************************************************************)
\* C10: after a second call with an InitVec, on the buffer as the first call
\* left it, the first HashLen bytes of Hash are the same on the little-endian
\* and on the big-endian host.
C10_ContinuationEndiannessIndependent ==
    (pc = "DONE" /\ call = "second") => Digest("le") = Digest("be")

====
